---- MODULE Spec2Model ----
(***************************************************************************)
(* Model of the genai web backend (cmd/web/main.go, internal/database,     *)
(* internal/gemini): the handlers that take text from the external         *)
(* generator and run it against the PostgreSQL store.                      *)
(*                                                                         *)
(* A text is a sequence of one-character strings, so that the string       *)
(* functions the code calls (ToUpper, Contains, Split, TrimSpace,          *)
(* TrimPrefix, TrimSuffix) are computed on characters.                     *)
(***************************************************************************)
EXTENDS Integers, Sequences, FiniteSets, TLC

(***************************************************************************)
(* Bounds of the model.                                                    *)
(***************************************************************************)
MaxFilterChunks == 2
MaxGenChunks == 3
MaxQueryChunks == 3
\* Calls of GetSchema that are followed.
MaxSchemaCalls == 2
\* Rows the table t holds before the previewed batch (ids 3, 4, ...).
PreloadedRows == 10

(***************************************************************************)
(* Go's strings package, on sequences of characters.                       *)
(***************************************************************************)
LowerLetters == <<"a","b","c","d","e","f","g","h","i","j","k","l","m",
                  "n","o","p","q","r","s","t","u","v","w","x","y","z">>
UpperLetters == <<"A","B","C","D","E","F","G","H","I","J","K","L","M",
                  "N","O","P","Q","R","S","T","U","V","W","X","Y","Z">>

ToUpperChar(c) ==
    IF \E k \in 1..26 : LowerLetters[k] = c
    THEN UpperLetters[CHOOSE k \in 1..26 : LowerLetters[k] = c]
    ELSE c

ToUpper(s) == [k \in 1..Len(s) |-> ToUpperChar(s[k])]

HasPrefix(s, p) == Len(s) >= Len(p) /\ SubSeq(s, 1, Len(p)) = p

HasSuffix(s, p) == Len(s) >= Len(p) /\ SubSeq(s, Len(s) - Len(p) + 1, Len(s)) = p

\* strings.Index: the 0-based position of the first occurrence, -1 when none.
Index(s, sub) ==
    LET hits == {k \in 0..(Len(s) - Len(sub)) : SubSeq(s, k + 1, k + Len(sub)) = sub}
    IN IF hits = {} THEN -1 ELSE CHOOSE k \in hits : \A m \in hits : k <= m

Contains(s, sub) == Index(s, sub) >= 0

TrimPrefix(s, p) == IF HasPrefix(s, p) THEN SubSeq(s, Len(p) + 1, Len(s)) ELSE s

TrimSuffix(s, p) == IF HasSuffix(s, p) THEN SubSeq(s, 1, Len(s) - Len(p)) ELSE s

WhiteSpace == {" ", "\t", "\n", "\r"}

TrimSpace(s) ==
    LET keep == {k \in 1..Len(s) : s[k] \notin WhiteSpace}
    IN IF keep = {} THEN <<>>
       ELSE SubSeq(s, CHOOSE k \in keep : \A m \in keep : k <= m,
                      CHOOSE k \in keep : \A m \in keep : k >= m)

\* strings.Split with a non-empty separator: cut at each occurrence, left to right.
RECURSIVE Split(_, _)
Split(s, sep) ==
    LET k == Index(s, sep)
    IN IF k = -1 THEN <<s>>
       ELSE <<SubSeq(s, 1, k)>> \o Split(SubSeq(s, k + Len(sep) + 1, Len(s)), sep)

\* Concatenation of a sequence of texts.
RECURSIVE Concat(_)
Concat(ss) == IF ss = <<>> THEN <<>> ELSE Head(ss) \o Concat(Tail(ss))

\* Every concatenation of at most n chunks drawn from the set chunks.
ChunkTexts(chunks, n) ==
    {Concat(ss) : ss \in UNION {[1..m -> chunks] : m \in 0..n}}

(***************************************************************************)
(* internal/database: the Safety Filter.                                   *)
(***************************************************************************)
forbidden == << <<"D","R","O","P">>,
                <<"D","E","L","E","T","E">>,
                <<"U","P","D","A","T","E">>,
                <<"A","L","T","E","R">>,
                <<"T","R","U","N","C","A","T","E">> >>

RECURSIVE IsQuerySafeLoop(_, _)
IsQuerySafeLoop(upperQuery, k) ==
    IF k > Len(forbidden) THEN TRUE
    ELSE IF Contains(upperQuery, forbidden[k]) THEN FALSE
    ELSE IsQuerySafeLoop(upperQuery, k + 1)

\* Mutant: the query is searched as written, without upper-casing.
IsQuerySafeNoUpper(query) == IsQuerySafeLoop(query, 1)

\* Mutant: the filter lets every text through.
IsQuerySafeAlways(query) == TRUE

IsQuerySafe(query) == IsQuerySafeLoop(ToUpper(query), 1)

(***************************************************************************)
(* Texts the model uses.                                                   *)
(***************************************************************************)
ChartMarker == <<"-","-"," ","C","H","A","R","T",":">>
\* The fence of a markdown code block: three backquotes (U+0060).  The character
\* cannot be written in a string of this language, so it is named "BQ".
FenceSql == <<"BQ","BQ","BQ","s","q","l">>
Fence == <<"BQ","BQ","BQ">>
Semi == <<";">>
InsT1 == <<"I","N","S","E","R","T"," ","I","N","T","O"," ","t"," ","V","A","L","U","E","S"," ","(","1",")">>
InsT2 == <<"I","N","S","E","R","T"," ","I","N","T","O"," ","t"," ","V","A","L","U","E","S"," ","(","2",")">>
SelT == <<"S","E","L","E","C","T"," ","*"," ","F","R","O","M"," ","t">>
SelectFrom == <<"S","E","L","E","C","T"," ","*"," ","F","R","O","M"," ">>
Limit10 == <<" ","L","I","M","I","T"," ","1","0">>
T_t == <<"t">>
T_u == <<"u">>

(***************************************************************************)
(* The PostgreSQL store: a catalog of tables in the public schema and the  *)
(* committed rows.  Table t has a unique column id; a row of t is its id.  *)
(* Table u can be created with no columns (CREATE TABLE u ()).             *)
(***************************************************************************)
TableOrder == <<T_t, T_u>>
TableNames == {TableOrder[k] : k \in 1..Len(TableOrder)}
Keys == {1, 2}

NoTable == [exists |-> FALSE, cols |-> <<>>]
ColsT == << [name |-> <<"i","d">>, type |-> <<"i","n","t","e","g","e","r">>],
            [name |-> <<"n","a","m","e">>, type |-> <<"t","e","x","t">>] >>

DDLScripts == {"CREATE TABLE t (id integer UNIQUE, name text)",
               "CREATE TABLE u ()",
               "DROP TABLE IF EXISTS t"}

\* What the store does with an uploaded DDL script: [ok, cat, rows].
DDLEffect(script, cat, rws) ==
    CASE script = "CREATE TABLE t (id integer UNIQUE, name text)" ->
            IF cat[T_t].exists THEN [ok |-> FALSE, cat |-> cat, rows |-> rws]
            ELSE [ok |-> TRUE,
                  cat |-> [cat EXCEPT ![T_t] = [exists |-> TRUE, cols |-> ColsT]],
                  rows |-> rws]
      [] script = "CREATE TABLE u ()" ->
            IF cat[T_u].exists THEN [ok |-> FALSE, cat |-> cat, rows |-> rws]
            ELSE [ok |-> TRUE,
                  cat |-> [cat EXCEPT ![T_u] = [exists |-> TRUE, cols |-> <<>>]],
                  rows |-> rws]
      [] OTHER ->
            [ok |-> TRUE,
             cat |-> [cat EXCEPT ![T_t] = NoTable],
             rows |-> {rw \in rws : rw[1] # T_t}]

\* The statements of a script as the store parses it: cut at the terminators.
RECURSIVE NonEmptyTrimmed(_)
NonEmptyTrimmed(frags) ==
    IF frags = <<>> THEN <<>>
    ELSE LET f == TrimSpace(Head(frags))
         IN (IF f = <<>> THEN <<>> ELSE <<f>>) \o NonEmptyTrimmed(Tail(frags))

StoreStatements(text) == NonEmptyTrimmed(Split(text, Semi))

\* The rows of table n in a view, in id order.
RECURSIVE KeysInOrder(_, _, _)
KeysInOrder(view, n, k) ==
    IF \A rw \in view : rw[1] # n \/ rw[2] < k THEN <<>>
    ELSE (IF <<n, k>> \in view THEN <<k>> ELSE <<>>) \o KeysInOrder(view, n, k + 1)

FirstRows(out, n) == SubSeq(out, 1, IF Len(out) < n THEN Len(out) ELSE n)

\* One statement against a view of the store: [ok, add, isSelect, out].
\* INSERT INTO t VALUES (k) fails when t is missing or id k is taken;
\* SELECT * FROM n [LIMIT 10] fails when n is missing; other text is no SQL.
StoreStatement(stmt, cat, view) ==
    LET bad == [ok |-> FALSE, add |-> {}, isSelect |-> FALSE, out |-> <<>>]
    IN CASE stmt \in {InsT1, InsT2} ->
              LET key == IF stmt = InsT1 THEN 1 ELSE 2
              IN IF cat[T_t].exists /\ <<T_t, key>> \notin view
                 THEN [ok |-> TRUE, add |-> {<<T_t, key>>}, isSelect |-> FALSE, out |-> <<>>]
                 ELSE bad
         [] \E n \in TableNames : stmt = SelectFrom \o n ->
              LET n == CHOOSE n \in TableNames : stmt = SelectFrom \o n
              IN IF cat[n].exists
                 THEN [ok |-> TRUE, add |-> {}, isSelect |-> TRUE,
                       out |-> KeysInOrder(view, n, 1)]
                 ELSE bad
         [] \E n \in TableNames : stmt = SelectFrom \o n \o Limit10 ->
              LET n == CHOOSE n \in TableNames : stmt = SelectFrom \o n \o Limit10
              IN IF cat[n].exists
                 THEN [ok |-> TRUE, add |-> {}, isSelect |-> TRUE,
                       out |-> FirstRows(KeysInOrder(view, n, 1), 10)]
                 ELSE bad
         [] OTHER -> bad

\* A script of statements run in order against a view: [ok, add, out] where out
\* is the first result set.  A failing statement fails the whole script.
RECURSIVE StoreRunLoop(_, _, _, _, _, _)
StoreRunLoop(stmts, cat, view, add, out, gotOut) ==
    IF stmts = <<>> THEN [ok |-> TRUE, add |-> add, out |-> out]
    ELSE LET one == StoreStatement(Head(stmts), cat, view \cup add)
         IN IF ~one.ok THEN [ok |-> FALSE, add |-> {}, out |-> <<>>]
            ELSE StoreRunLoop(Tail(stmts), cat, view, add \cup one.add,
                              IF one.isSelect /\ ~gotOut THEN one.out ELSE out,
                              gotOut \/ one.isSelect)

StoreRun(text, cat, view) == StoreRunLoop(StoreStatements(text), cat, view, {}, <<>>, FALSE)

(***************************************************************************)
(* internal/database: schema introspection.                                *)
(***************************************************************************)
\* information_schema.columns ORDER BY table_name, ordinal_position.
RECURSIVE ColumnRows(_, _)
ColumnRows(cat, k) ==
    IF k > Len(TableOrder) THEN <<>>
    ELSE LET n == TableOrder[k]
         IN [j \in 1..Len(cat[n].cols) |->
                [tableName |-> n, columnName |-> cat[n].cols[j].name,
                 dataType |-> cat[n].cols[j].type]]
            \o ColumnRows(cat, k + 1)

RECURSIVE GetSchemaLoop(_, _, _, _)
GetSchemaLoop(colRows, k, currentTable, sb) ==
    IF k > Len(colRows)
    THEN IF currentTable # <<>> THEN sb \o <<")", "\n">> ELSE sb
    ELSE LET rw == colRows[k]
             opened == IF rw.tableName # currentTable
                       THEN (IF currentTable # <<>> THEN sb \o <<")", "\n">> ELSE sb)
                            \o <<"T","A","B","L","E"," ">> \o rw.tableName \o <<" ","(","\n">>
                       ELSE sb
         IN GetSchemaLoop(colRows, k + 1, rw.tableName,
                          opened \o <<" "," ">> \o rw.columnName \o <<" ">> \o rw.dataType
                                 \o <<",","\n">>)

GetSchema(cat) == GetSchemaLoop(ColumnRows(cat, 1), 1, <<>>, <<>>)

\* information_schema.tables ORDER BY table_name.
RECURSIVE GetTablesLoop(_, _)
GetTablesLoop(cat, k) ==
    IF k > Len(TableOrder) THEN <<>>
    ELSE (IF cat[TableOrder[k]].exists THEN <<TableOrder[k]>> ELSE <<>>)
         \o GetTablesLoop(cat, k + 1)

GetTables(cat) == GetTablesLoop(cat, 1)

(***************************************************************************)
(* internal/gemini: the text of a generator response.  A response is its   *)
(* list of candidates, a candidate the list of its content parts.          *)
(***************************************************************************)
TextPart(t) == [isText |-> TRUE, txt |-> t]
BlobPart == [isText |-> FALSE, txt |-> <<>>]

RECURSIVE PartsText(_)
PartsText(parts) ==
    IF parts = <<>> THEN <<>>
    ELSE (IF Head(parts).isText THEN Head(parts).txt ELSE <<>>) \o PartsText(Tail(parts))

getResponseText(resp) ==
    IF Len(resp) = 0 \/ Len(resp[1]) = 0 THEN <<>>
    ELSE TrimSpace(TrimSuffix(TrimSpace(TrimPrefix(TrimPrefix(
             TrimSpace(PartsText(resp[1])), FenceSql), Fence)), Fence))

\* NaturalLanguageToSQL after the generator answered: [text, isChart].
NaturalLanguageToSQL(resp) ==
    LET text == TrimSpace(TrimSuffix(TrimPrefix(TrimPrefix(
                    getResponseText(resp), FenceSql), Fence), Fence))
    IN [text |-> text, isChart |-> Contains(text, ChartMarker)]

(***************************************************************************)
(* What the external generator can answer.                                 *)
(***************************************************************************)
GenChunks == {InsT1, InsT2, Semi, <<" ">>, <<"x">>}

GenTexts ==
    ChunkTexts(GenChunks, MaxGenChunks)
    \cup {FenceSql \o <<"\n">> \o InsT1 \o Semi \o <<"\n">> \o InsT2 \o Semi \o <<"\n">> \o Fence}

GenResponses ==
    {<<>>, << <<>> >>, << <<TextPart(InsT1 \o Semi), BlobPart, TextPart(InsT2)>> >>}
    \cup {<< <<TextPart(t)>> >> : t \in GenTexts}

QueryChunks == {SelT, <<";"," ">>, ChartMarker,
                <<" ","s","c","a","t","t","e","r","\n">>,
                <<"d","r","o","p"," ","t","a","b","l","e"," ","t">>,
                <<";">> \o InsT1}

QueryTexts ==
    ChunkTexts(QueryChunks, MaxQueryChunks)
    \cup {SelT \o <<";"," ">> \o ChartMarker \o <<" ","b","a","r">>,
          SelT \o <<";"," ">> \o ChartMarker \o <<" ","s","c","a","t","t","e","r">>,
          SelT \o <<";"," ">> \o ChartMarker \o <<" ","p","i","e"," ">> \o ChartMarker
               \o <<" ","l","i","n","e">>,
          FenceSql \o <<"\n">> \o SelT \o <<"\n">> \o ChartMarker
               \o <<" ","d","o","u","g","h","n","u","t">> \o <<"\n">> \o Fence}

QueryResponses ==
    {<<>>, << <<>> >>} \cup {<< <<TextPart(t)>> >> : t \in QueryTexts}

Temperatures == {7}
MaxTokensChoices == {256}

(***************************************************************************)
(* State.                                                                  *)
(*  catalog, rows   the store: tables of the public schema, committed rows *)
(*  model           the shared generator handle (gemini.Client.model)      *)
(*  req             each request: where its handler stands, its locals,    *)
(*                  its response, and a record of what it did              *)
(*  fQuery, fSafe, fDone   a single call of IsQuerySafe                    *)
(*  schemaCalls     what the calls of GetSchema returned, each with the    *)
(*                  catalog it read                                        *)
(***************************************************************************)
VARIABLES catalog, rows, model, req, fQuery, fSafe, fDone, schemaCalls

vars == <<catalog, rows, model, req, fQuery, fSafe, fDone, schemaCalls>>

Requests == {"r1"}

IdleReq ==
    [pc |-> "idle", handler |-> "none", ctxDone |-> FALSE,
     temperature |-> 0, maxTokens |-> 0,
     text |-> <<>>, isChart |-> FALSE, execSQL |-> <<>>, chartType |-> <<>>,
     statements |-> <<>>, tables |-> <<>>, i |-> 0,
     txOpen |-> FALSE, txAdd |-> {},
     status |-> 0, body |-> "", sqlAttached |-> FALSE, errSQL |-> <<>>,
     result |-> <<>>, archive |-> <<>>,
     respSQL |-> <<>>, respIsChart |-> FALSE, respChartType |-> <<>>,
     \* a record of what the request did: the generator call and the configuration
     \* it was sent under, the Safety Filter's verdict, the statements submitted to
     \* the transaction (log) and to the pool (dbLog), the fate of the transaction
     genCalled |-> FALSE, genOK |-> FALSE, sent |-> [temperature |-> 0, maxTokens |-> 0, sys |-> "none"],
     filtered |-> FALSE, filterArg |-> <<>>, filterOK |-> FALSE,
     log |-> <<>>, dbLog |-> <<>>, began |-> FALSE, snap |-> {}, rolledBack |-> FALSE,
     committed |-> FALSE, commitAfterCancel |-> FALSE, storeFailed |-> FALSE]

InitProgram ==
    /\ catalog = [n \in TableNames |-> NoTable]
    /\ rows = {}
    /\ model = [temperature |-> 0, maxTokens |-> 0, sys |-> "none"]
    /\ req = [r \in Requests |-> IdleReq]

Init ==
    /\ InitProgram
    /\ fQuery = <<>>
    /\ fSafe = TRUE
    /\ fDone = FALSE
    /\ schemaCalls = <<>>

\* http.Error / w.Write: the response of the request, which ends the handler.
Respond(rec, status, body) == [rec EXCEPT !.pc = "done", !.status = status, !.body = body]

RespondSQL(rec, status, body, sql) ==
    [rec EXCEPT !.pc = "done", !.status = status, !.body = body,
                !.sqlAttached = TRUE, !.errSQL = sql]

Submitted(rec, sql) == [sql |-> sql, afterCancel |-> rec.ctxDone]

\* The rows a scan loop that skips failing rows keeps.
RECURSIVE KeepRows(_, _, _)
KeepRows(out, failed, k) ==
    IF k > Len(out) THEN <<>>
    ELSE (IF k \in failed THEN <<>> ELSE <<out[k]>>) \o KeepRows(out, failed, k + 1)

\* The records a scan loop that ignores the scan error writes (0: a blank record).
BlankRows(out, failed) == [k \in 1..Len(out) |-> IF k \in failed THEN 0 ELSE out[k]]

(***************************************************************************)
(* The caller goes away: the request's context is cancelled.               *)
(***************************************************************************)
Cancel(r) ==
    /\ req[r].pc \notin {"idle", "done"}
    /\ ~req[r].ctxDone
    /\ req' = [req EXCEPT ![r].ctxDone = TRUE]
    /\ UNCHANGED <<catalog, rows, model, fQuery, fSafe, fDone, schemaCalls>>

\* The response has been written; the request slot serves the next request.
Finish(r) ==
    /\ req[r].pc = "done"
    /\ req' = [req EXCEPT ![r] = IdleReq]
    /\ UNCHANGED <<catalog, rows, model, fQuery, fSafe, fDone, schemaCalls>>

(***************************************************************************)
(* uploadDDL                                                               *)
(***************************************************************************)
uploadDDL(r) ==
    /\ req[r].pc = "idle"
    /\ \E method \in {"POST", "GET"}, fileOK \in BOOLEAN, readOK \in BOOLEAN,
          script \in DDLScripts, connFail \in BOOLEAN :
         LET rec == [req[r] EXCEPT !.handler = "uploadDDL"]
             eff == DDLEffect(script, catalog, rows)
         IN IF method # "POST"
            THEN /\ req' = [req EXCEPT ![r] = Respond(rec, 405, "Method not allowed")]
                 /\ UNCHANGED <<catalog, rows>>
            ELSE IF ~fileOK
            THEN /\ req' = [req EXCEPT ![r] = Respond(rec, 400, "Invalid file")]
                 /\ UNCHANGED <<catalog, rows>>
            ELSE IF ~readOK
            THEN /\ req' = [req EXCEPT ![r] = Respond(rec, 500, "Error reading file")]
                 /\ UNCHANGED <<catalog, rows>>
            ELSE IF connFail \/ ~eff.ok
            THEN /\ req' = [req EXCEPT ![r] =
                               Respond([rec EXCEPT !.storeFailed = TRUE], 500, "Database error")]
                 /\ UNCHANGED <<catalog, rows>>
            ELSE /\ req' = [req EXCEPT ![r] = Respond(rec, 200, "Schema applied successfully")]
                 /\ catalog' = eff.cat
                 /\ rows' = eff.rows
    /\ UNCHANGED <<model, fQuery, fSafe, fDone, schemaCalls>>

(***************************************************************************)
(* generateData                                                            *)
(***************************************************************************)
\* Method check, body decoding, GetSchema and the empty-schema check.
generateData(r) ==
    /\ req[r].pc = "idle"
    /\ \E method \in {"POST", "GET"}, bodyOK \in BOOLEAN, schemaErr \in BOOLEAN,
          temperature \in Temperatures, maxTokens \in MaxTokensChoices :
         LET rec == [req[r] EXCEPT !.handler = "generateData"]
         IN req' = [req EXCEPT ![r] =
              IF method # "POST" THEN Respond(rec, 405, "Method not allowed")
              ELSE IF ~bodyOK THEN Respond(rec, 400, "Invalid request body")
              ELSE IF schemaErr
                   THEN Respond([rec EXCEPT !.storeFailed = TRUE], 500, "Error fetching schema")
              ELSE IF GetSchema(catalog) = <<>>
                   THEN Respond(rec, 400, "No tables found in database")
              ELSE [rec EXCEPT !.pc = "gd_configure", !.temperature = temperature,
                               !.maxTokens = maxTokens]]
    /\ UNCHANGED <<catalog, rows, model, fQuery, fSafe, fDone, schemaCalls>>

\* GenerateDataSQL sets the sampling parameters and the directive of the shared model.
GenerateDataSQL_Configure(r) ==
    /\ req[r].pc = "gd_configure"
    /\ model' = [temperature |-> req[r].temperature, maxTokens |-> req[r].maxTokens,
                 sys |-> "insert"]
    /\ req' = [req EXCEPT ![r].pc = "gd_send"]
    /\ UNCHANGED <<catalog, rows, fQuery, fSafe, fDone, schemaCalls>>

\* GenerateContent under the request's context, then the split into statements.
GenerateDataSQL_Send(r, responses) ==
    /\ req[r].pc = "gd_send"
    /\ \E failed \in BOOLEAN, resp \in responses :
         LET rec == [req[r] EXCEPT !.genCalled = TRUE, !.sent = model]
             sqlResult == getResponseText(resp)
         IN req' = [req EXCEPT ![r] =
              IF failed \/ rec.ctxDone THEN Respond(rec, 500, "Gemini error")
              ELSE [rec EXCEPT !.pc = "gd_begin", !.genOK = TRUE, !.text = sqlResult,
                               !.statements = Split(sqlResult, Semi)]]
    /\ UNCHANGED <<catalog, rows, model, fQuery, fSafe, fDone, schemaCalls>>

\* app.DB.Begin()
generateData_Begin(r) ==
    /\ req[r].pc = "gd_begin"
    /\ \E connFail \in BOOLEAN :
         req' = [req EXCEPT ![r] =
              IF connFail
              THEN Respond([@ EXCEPT !.storeFailed = TRUE], 500, "Database error")
              ELSE [@ EXCEPT !.pc = "gd_exec", !.i = 1, !.txOpen = TRUE, !.txAdd = {},
                             !.began = TRUE, !.snap = rows]]
    /\ UNCHANGED <<catalog, rows, model, fQuery, fSafe, fDone, schemaCalls>>

\* Mutant: the fragment is executed as it was cut, untrimmed.
StatementOfRaw(fragment) == fragment

\* The statement a fragment of the split holds.
StatementOf(fragment) == TrimSpace(fragment)

\* Mutant: the failed batch is committed instead of rolled back.
AfterExecErrorCommit(rws, txAdd) == rws \cup txAdd

\* The committed rows after tx.Rollback().
AfterExecError(rws, txAdd) == rws

\* One turn of the loop over the statements: skip an empty one, tx.Exec another.
generateData_Exec(r) ==
    /\ req[r].pc = "gd_exec"
    /\ req[r].i <= Len(req[r].statements)
    /\ LET rec == req[r]
           stmt == StatementOf(rec.statements[rec.i])
           eff == StoreRun(stmt, catalog, rows \cup rec.txAdd)
       IN IF stmt = <<>>
          THEN /\ req' = [req EXCEPT ![r].i = rec.i + 1]
               /\ rows' = rows
          ELSE \E connFail \in BOOLEAN :
                 IF connFail \/ ~eff.ok
                 THEN /\ req' = [req EXCEPT ![r] =
                           RespondSQL([rec EXCEPT !.log = Append(@, Submitted(rec, stmt)),
                                                  !.txOpen = FALSE, !.txAdd = {},
                                                  !.rolledBack = TRUE, !.storeFailed = TRUE],
                                      500, "Error executing generated SQL", stmt)]
                      /\ rows' = AfterExecError(rows, rec.txAdd)
                 ELSE /\ req' = [req EXCEPT ![r] =
                           [rec EXCEPT !.log = Append(@, Submitted(rec, stmt)),
                                       !.txAdd = @ \cup eff.add, !.i = rec.i + 1]]
                      /\ rows' = rows
    /\ UNCHANGED <<catalog, model, fQuery, fSafe, fDone, schemaCalls>>

\* tx.Commit()
generateData_Commit(r) ==
    /\ req[r].pc = "gd_exec"
    /\ req[r].i > Len(req[r].statements)
    /\ \E connFail \in BOOLEAN :
         LET rec == req[r]
         IN IF connFail
            THEN /\ req' = [req EXCEPT ![r] =
                      Respond([rec EXCEPT !.txOpen = FALSE, !.txAdd = {}, !.storeFailed = TRUE],
                              500, "Transaction commit error")]
                 /\ rows' = rows
            ELSE /\ req' = [req EXCEPT ![r] =
                      [rec EXCEPT !.pc = "gd_preview", !.txOpen = FALSE, !.txAdd = {},
                                  !.committed = TRUE, !.commitAfterCancel = rec.ctxDone]]
                 /\ rows' = rows \cup {rw \in rec.txAdd : catalog[rw[1]].exists}
    /\ UNCHANGED <<catalog, model, fQuery, fSafe, fDone, schemaCalls>>

\* Mutant: the preview reads the whole table.
fetchingTableDataNoLimit(tableName) == SelectFrom \o tableName

\* fetchingTableData: SELECT * FROM <table> LIMIT 10, rows that fail to scan skipped.
fetchingTableDataSQL(tableName) == SelectFrom \o tableName \o Limit10

\* The preview of the first table, best effort.
generateData_Preview(r) ==
    /\ req[r].pc = "gd_preview"
    /\ \E tablesErr \in BOOLEAN, connFail \in BOOLEAN :
         LET rec == req[r]
             tables == IF tablesErr THEN <<>> ELSE GetTables(catalog)
             sql == fetchingTableDataSQL(tables[1])
             eff == StoreRun(sql, catalog, rows)
         IN IF Len(tables) = 0
            THEN req' = [req EXCEPT ![r] =
                     Respond([rec EXCEPT !.storeFailed = @ \/ tablesErr], 200,
                             "Data generated but no tables found to preview")]
            ELSE IF connFail \/ ~eff.ok
            THEN req' = [req EXCEPT ![r] =
                     Respond([rec EXCEPT !.tables = tables, !.storeFailed = TRUE,
                                         !.dbLog = Append(@, Submitted(rec, sql))],
                             200, "Data generated successfully")]
            ELSE \E failedScan \in SUBSET (1..Len(eff.out)) :
                   req' = [req EXCEPT ![r] =
                     Respond([rec EXCEPT !.tables = tables,
                                         !.result = KeepRows(eff.out, failedScan, 1),
                                         !.storeFailed = failedScan # {},
                                         !.dbLog = Append(@, Submitted(rec, sql))],
                             200, "json: Data generated successfully")]
    /\ UNCHANGED <<catalog, rows, model, fQuery, fSafe, fDone, schemaCalls>>

(***************************************************************************)
(* query                                                                   *)
(***************************************************************************)
\* Method check, body decoding and GetSchema.
query(r) ==
    /\ req[r].pc = "idle"
    /\ \E method \in {"POST", "GET"}, bodyOK \in BOOLEAN, schemaErr \in BOOLEAN :
         LET rec == [req[r] EXCEPT !.handler = "query"]
         IN req' = [req EXCEPT ![r] =
              IF method # "POST" THEN Respond(rec, 405, "Method not allowed")
              ELSE IF ~bodyOK THEN Respond(rec, 400, "Invalid JSON")
              ELSE IF schemaErr
                   THEN Respond([rec EXCEPT !.storeFailed = TRUE], 500, "Error fetching schema")
              ELSE [rec EXCEPT !.pc = "q_configure"]]
    /\ UNCHANGED <<catalog, rows, model, fQuery, fSafe, fDone, schemaCalls>>

\* NaturalLanguageToSQL resets the shared model: temperature 0.1 (in tenths), 1024 tokens.
NaturalLanguageToSQL_Configure(r) ==
    /\ req[r].pc = "q_configure"
    /\ model' = [temperature |-> 1, maxTokens |-> 1024, sys |-> "select"]
    /\ req' = [req EXCEPT ![r].pc = "q_send"]
    /\ UNCHANGED <<catalog, rows, fQuery, fSafe, fDone, schemaCalls>>

\* Mutant: the text is executed with its chart directive.
StripChartKeep(generatedSQL, isChart) ==
    LET parts == Split(generatedSQL, ChartMarker)
    IN IF isChart /\ Len(parts) > 1
       THEN [execSQL |-> generatedSQL, chartType |-> TrimSpace(parts[2])]
       ELSE [execSQL |-> generatedSQL, chartType |-> <<>>]

\* "Remove Chart comment for execution": [execSQL, chartType].
StripChart(generatedSQL, isChart) ==
    LET parts == Split(generatedSQL, ChartMarker)
    IN IF isChart /\ Len(parts) > 1
       THEN [execSQL |-> parts[1], chartType |-> TrimSpace(parts[2])]
       ELSE [execSQL |-> generatedSQL, chartType |-> <<>>]

\* GenerateContent under the request's context, the clean-up of the answer, the
\* chart directive and the Safety Filter.
NaturalLanguageToSQL_Send(r, responses) ==
    /\ req[r].pc = "q_send"
    /\ \E failed \in BOOLEAN, resp \in responses :
         LET rec == [req[r] EXCEPT !.genCalled = TRUE, !.sent = model]
             nl == NaturalLanguageToSQL(resp)
             cut == StripChart(nl.text, nl.isChart)
             safe == IsQuerySafe(cut.execSQL)
             got == [rec EXCEPT !.genOK = TRUE, !.text = nl.text, !.isChart = nl.isChart,
                                !.execSQL = cut.execSQL, !.chartType = cut.chartType,
                                !.filtered = TRUE, !.filterArg = cut.execSQL,
                                !.filterOK = safe]
         IN req' = [req EXCEPT ![r] =
              IF failed \/ rec.ctxDone THEN Respond(rec, 500, "AI Error")
              ELSE IF ~safe
                   THEN Respond(got, 403, "Unsafe query generated. Operation blocked.")
              ELSE [got EXCEPT !.pc = "q_exec"]]
    /\ UNCHANGED <<catalog, rows, model, fQuery, fSafe, fDone, schemaCalls>>

\* app.DB.Query(execSQL) and the materialization of its rows.
query_Exec(r) ==
    /\ req[r].pc = "q_exec"
    /\ \E connFail \in BOOLEAN :
         LET rec == [req[r] EXCEPT !.dbLog = Append(@, Submitted(req[r], req[r].execSQL))]
             eff == StoreRun(rec.execSQL, catalog, rows)
         IN IF connFail \/ ~eff.ok
            THEN /\ req' = [req EXCEPT ![r] =
                      RespondSQL([rec EXCEPT !.storeFailed = TRUE], 500,
                                 "Query execution error", rec.execSQL)]
                 /\ rows' = rows
            ELSE \E failedScan \in SUBSET (1..Len(eff.out)) :
                   /\ req' = [req EXCEPT ![r] =
                        Respond([rec EXCEPT !.result = KeepRows(eff.out, failedScan, 1),
                                            !.respSQL = rec.text,
                                            !.respIsChart = rec.isChart,
                                            !.respChartType = rec.chartType,
                                            !.storeFailed = failedScan # {}],
                                200, "json")]
                   /\ rows' = rows \cup eff.add
    /\ UNCHANGED <<catalog, model, fQuery, fSafe, fDone, schemaCalls>>

(***************************************************************************)
(* downloadCSV and downloadZip                                             *)
(***************************************************************************)
ExportSQL(tableName) == SelectFrom \o tableName

\* downloadCSV of a named table, or of the first table when none is named.
downloadCSV(r) ==
    /\ req[r].pc = "idle"
    /\ \E named \in {<<>>} \cup TableNames, tablesErr \in BOOLEAN, connFail \in BOOLEAN :
         LET rec == [req[r] EXCEPT !.handler = "downloadCSV"]
             tables == IF tablesErr THEN <<>> ELSE GetTables(catalog)
             tableName == IF named # <<>> THEN named ELSE tables[1]
             sql == ExportSQL(tableName)
             eff == StoreRun(sql, catalog, rows)
         IN IF named = <<>> /\ Len(tables) = 0
            THEN req' = [req EXCEPT ![r] =
                     Respond([rec EXCEPT !.storeFailed = tablesErr], 400, "No table specified")]
            ELSE IF connFail \/ ~eff.ok
            THEN req' = [req EXCEPT ![r] =
                     Respond([rec EXCEPT !.storeFailed = TRUE,
                                         !.dbLog = Append(@, Submitted(rec, sql))],
                             500, "Error querying table")]
            ELSE \E failedScan \in SUBSET (1..Len(eff.out)) :
                   req' = [req EXCEPT ![r] =
                     Respond([rec EXCEPT !.result = KeepRows(eff.out, failedScan, 1),
                                         !.storeFailed = failedScan # {},
                                         !.dbLog = Append(@, Submitted(rec, sql))],
                             200, "csv")]
    /\ UNCHANGED <<catalog, rows, model, fQuery, fSafe, fDone, schemaCalls>>

\* GetTables, then the archive is started.
downloadZip(r) ==
    /\ req[r].pc = "idle"
    /\ \E tablesErr \in BOOLEAN :
         LET rec == [req[r] EXCEPT !.handler = "downloadZip"]
         IN req' = [req EXCEPT ![r] =
              IF tablesErr
              THEN Respond([rec EXCEPT !.storeFailed = TRUE], 500, "Error fetching tables")
              ELSE [rec EXCEPT !.pc = "dz_loop", !.tables = GetTables(catalog), !.i = 1]]
    /\ UNCHANGED <<catalog, rows, model, fQuery, fSafe, fDone, schemaCalls>>

\* One table of the archive: a failing query or entry skips the table.
downloadZip_Table(r) ==
    /\ req[r].pc = "dz_loop"
    /\ req[r].i <= Len(req[r].tables)
    /\ \E connFail \in BOOLEAN, createFail \in BOOLEAN :
         LET rec == req[r]
             tableName == rec.tables[rec.i]
             sql == ExportSQL(tableName)
             eff == StoreRun(sql, catalog, rows)
             logged == [rec EXCEPT !.dbLog = Append(@, Submitted(rec, sql)), !.i = rec.i + 1]
         IN IF connFail \/ ~eff.ok
            THEN req' = [req EXCEPT ![r] = [logged EXCEPT !.storeFailed = TRUE]]
            ELSE IF createFail
            THEN req' = [req EXCEPT ![r] = logged]
            ELSE \E failedScan \in SUBSET (1..Len(eff.out)) :
                   req' = [req EXCEPT ![r] =
                     [logged EXCEPT !.archive = Append(@, [name |-> tableName,
                                         records |-> BlankRows(eff.out, failedScan)]),
                                    !.storeFailed = @ \/ failedScan # {}]]
    /\ UNCHANGED <<catalog, rows, model, fQuery, fSafe, fDone, schemaCalls>>

\* The archive is closed; nothing set a status, so the response is 200.
downloadZip_Close(r) ==
    /\ req[r].pc = "dz_loop"
    /\ req[r].i > Len(req[r].tables)
    /\ req' = [req EXCEPT ![r] = Respond(@, 200, "zip")]
    /\ UNCHANGED <<catalog, rows, model, fQuery, fSafe, fDone, schemaCalls>>

(***************************************************************************)
(* The specification of the server: one request at a time is served, the   *)
(* caller may go away at any moment.                                       *)
(***************************************************************************)
Next ==
    \E r \in Requests :
        \/ uploadDDL(r)
        \/ generateData(r)
        \/ GenerateDataSQL_Configure(r)
        \/ GenerateDataSQL_Send(r, GenResponses)
        \/ generateData_Begin(r)
        \/ generateData_Exec(r)
        \/ generateData_Commit(r)
        \/ generateData_Preview(r)
        \/ query(r)
        \/ NaturalLanguageToSQL_Configure(r)
        \/ NaturalLanguageToSQL_Send(r, QueryResponses)
        \/ query_Exec(r)
        \/ downloadCSV(r)
        \/ downloadZip(r)
        \/ downloadZip_Table(r)
        \/ downloadZip_Close(r)
        \/ Cancel(r)
        \/ Finish(r)

Spec == Init /\ [][Next]_vars

(***************************************************************************)
(* The Safety Filter alone, on every text made of at most MaxFilterChunks  *)
(* chunks.                                                                 *)
(***************************************************************************)
FilterChunks ==
    {forbidden[k] : k \in 1..Len(forbidden)}
    \cup {<<"d","r","o","p">>, <<"D","e","l","e","t","e">>, <<"u","P","d","A","t","E">>,
          <<"a","l","t","e","r">>, <<"t","r","u","n","c","a","t","e">>,
          <<"D","R">>, <<"O","P">>, <<"t","e">>, <<"x">>, <<"_">>, <<" ">>, <<"'">>,
          <<"S","E","L","E","C","T">>}

FilterTexts == ChunkTexts(FilterChunks, MaxFilterChunks)

InitFilter ==
    /\ InitProgram
    /\ fQuery \in FilterTexts
    /\ fSafe = TRUE
    /\ fDone = FALSE
    /\ schemaCalls = <<>>

CallIsQuerySafe ==
    /\ ~fDone
    /\ fDone' = TRUE
    /\ fSafe' = IsQuerySafe(fQuery)
    /\ UNCHANGED <<catalog, rows, model, req, fQuery, schemaCalls>>

SpecFilter == InitFilter /\ [][CallIsQuerySafe]_vars

(***************************************************************************)
(* generateData alone against a store that already holds the tables and    *)
(* PreloadedRows rows of t, so that a committed batch leaves more rows     *)
(* than a preview shows.                                                   *)
(***************************************************************************)
PreviewTexts == {InsT1 \o Semi \o InsT2, InsT2 \o Semi, <<"x">>, <<>>}

PreviewResponses == {<< <<TextPart(t)>> >> : t \in PreviewTexts}

InitPreview ==
    /\ catalog \in {[n \in TableNames |->
                        IF n = T_t THEN [exists |-> TRUE, cols |-> ColsT]
                        ELSE [exists |-> withU, cols |-> <<>>]] : withU \in BOOLEAN}
    /\ rows = {<<T_t, k>> : k \in 3..(PreloadedRows + 2)}
    /\ model = [temperature |-> 0, maxTokens |-> 0, sys |-> "none"]
    /\ req = [r \in Requests |-> IdleReq]
    /\ fQuery = <<>>
    /\ fSafe = TRUE
    /\ fDone = FALSE
    /\ schemaCalls = <<>>

NextPreview ==
    \E r \in Requests :
        \/ generateData(r)
        \/ GenerateDataSQL_Configure(r)
        \/ GenerateDataSQL_Send(r, PreviewResponses)
        \/ generateData_Begin(r)
        \/ generateData_Exec(r)
        \/ generateData_Commit(r)
        \/ generateData_Preview(r)
        \/ Cancel(r)
        \/ Finish(r)

SpecPreview == InitPreview /\ [][NextPreview]_vars

(***************************************************************************)
(* Two requests served at the same time, as net/http serves each request   *)
(* in a goroutine of its own: generateData and query against the one       *)
(* generator handle, with the table t in place.                            *)
(***************************************************************************)
ConcurrentRequests == {"r1", "r2"}

SharedGenResponses == {<< <<TextPart(InsT1)>> >>}

SharedQueryResponses == {<< <<TextPart(SelT)>> >>}

InitShared ==
    /\ catalog = [n \in TableNames |->
                     IF n = T_t THEN [exists |-> TRUE, cols |-> ColsT] ELSE NoTable]
    /\ rows = {}
    /\ model = [temperature |-> 0, maxTokens |-> 0, sys |-> "none"]
    /\ req = [r \in ConcurrentRequests |-> IdleReq]
    /\ fQuery = <<>>
    /\ fSafe = TRUE
    /\ fDone = FALSE
    /\ schemaCalls = <<>>

NextShared ==
    \E r \in ConcurrentRequests :
        \/ generateData(r)
        \/ GenerateDataSQL_Configure(r)
        \/ GenerateDataSQL_Send(r, SharedGenResponses)
        \/ generateData_Begin(r)
        \/ generateData_Exec(r)
        \/ generateData_Commit(r)
        \/ generateData_Preview(r)
        \/ query(r)
        \/ NaturalLanguageToSQL_Configure(r)
        \/ NaturalLanguageToSQL_Send(r, SharedQueryResponses)
        \/ query_Exec(r)
        \/ Finish(r)

SpecShared == InitShared /\ [][NextShared]_vars

(***************************************************************************)
(* GetSchema alone, on catalogs whose tables declare their columns in      *)
(* several orders, with uploads in between.  The store may return the rows *)
(* of the catalog query in any order its ORDER BY clause allows.           *)
(***************************************************************************)
ColAddress == [name |-> <<"a","d","d","r","e","s","s">>, type |-> <<"t","e","x","t">>]

SchemaColumnLists ==
    {<<>>, <<ColsT[1]>>, ColsT, <<ColsT[2], ColsT[1]>>, <<ColsT[2], ColAddress, ColsT[1]>>}

\* The rows of information_schema.columns for the public schema.
ColumnSet(cat) ==
    UNION {{[tableName |-> n, ordinalPosition |-> j,
             columnName |-> cat[n].cols[j].name, dataType |-> cat[n].cols[j].type] :
               j \in 1..Len(cat[n].cols)} : n \in {m \in TableNames : cat[m].exists}}

RECURSIVE Orderings(_)
Orderings(S) ==
    IF S = {} THEN {<<>>}
    ELSE UNION {{<<x>> \o p : p \in Orderings(S \ {x})} : x \in S}

TableRank(n) == CHOOSE k \in 1..Len(TableOrder) : TableOrder[k] = n

\* Mutant: ORDER BY table_name alone.
OrderByTableName(colRows) ==
    \A i, j \in 1..Len(colRows) :
        i < j => TableRank(colRows[i].tableName) <= TableRank(colRows[j].tableName)

\* ORDER BY table_name, ordinal_position
OrderBy(colRows) ==
    \A i, j \in 1..Len(colRows) :
        i < j =>
            \/ TableRank(colRows[i].tableName) < TableRank(colRows[j].tableName)
            \/ /\ colRows[i].tableName = colRows[j].tableName
               /\ colRows[i].ordinalPosition <= colRows[j].ordinalPosition

\* The results the store may return for the catalog query.
ColumnsQuery(cat) == {colRows \in Orderings(ColumnSet(cat)) : OrderBy(colRows)}

InitSchema ==
    /\ catalog \in [TableNames -> {NoTable} \cup
                       {[exists |-> TRUE, cols |-> cols] : cols \in SchemaColumnLists}]
    /\ rows = {}
    /\ model = [temperature |-> 0, maxTokens |-> 0, sys |-> "none"]
    /\ req = [r \in Requests |-> IdleReq]
    /\ fQuery = <<>>
    /\ fSafe = TRUE
    /\ fDone = FALSE
    /\ schemaCalls = <<>>

CallGetSchema ==
    /\ Len(schemaCalls) < MaxSchemaCalls
    /\ \E queryErr \in BOOLEAN, colRows \in ColumnsQuery(catalog) :
         schemaCalls' = Append(schemaCalls,
             [cat |-> catalog, err |-> queryErr,
              text |-> IF queryErr THEN <<>> ELSE GetSchemaLoop(colRows, 1, <<>>, <<>>)])
    /\ UNCHANGED <<catalog, rows, model, req, fQuery, fSafe, fDone>>

NextSchema ==
    \/ CallGetSchema
    \/ \E r \in Requests : uploadDDL(r)
    \/ \E r \in Requests : Finish(r)

SpecSchema == InitSchema /\ [][NextSchema]_vars

(***************************************************************************)
(* Properties.  They are stated on positions of the text, not through the  *)
(* operators that model the code.                                          *)
(***************************************************************************)
DenyList == {<<"D","R","O","P">>, <<"D","E","L","E","T","E">>, <<"U","P","D","A","T","E">>,
             <<"A","L","T","E","R">>, <<"T","R","U","N","C","A","T","E">>}

\* word occurs in text at position k (1-based), letter case ignored.
OccursAtAnyCase(text, word, k) ==
    /\ k + Len(word) - 1 <= Len(text)
    /\ \A j \in 1..Len(word) : ToUpperChar(text[k + j - 1]) = word[j]

HasDeniedKeyword(text) ==
    \E word \in DenyList : \E k \in 1..Len(text) : OccursAtAnyCase(text, word, k)

\* word occurs in text at position k (1-based), as written.
OccursAt(text, word, k) ==
    /\ k + Len(word) - 1 <= Len(text)
    /\ \A j \in 1..Len(word) : text[k + j - 1] = word[j]

Occurs(text, word) == \E k \in 1..Len(text) : OccursAt(text, word, k)

\* The position of the first occurrence of word in text, Len(text) + 1 when none.
FirstAt(text, word) ==
    IF Occurs(text, word)
    THEN CHOOSE k \in 1..Len(text) :
            OccursAt(text, word, k) /\ \A m \in 1..(k - 1) : ~OccursAt(text, word, m)
    ELSE Len(text) + 1

\* C1: on the query path a text the Safety Filter rejects ends the request with
\* 403 and nothing of the request is submitted to the store; whatever is submitted
\* is exactly the text the filter accepted, and it holds no denied keyword.
C1_UnsafeNeverExecuted ==
    \A r \in Requests :
        req[r].handler = "query" =>
            /\ \A k \in 1..Len(req[r].dbLog) :
                  /\ req[r].filtered /\ req[r].filterOK
                  /\ req[r].dbLog[k].sql = req[r].filterArg
                  /\ req[r].filterArg = req[r].execSQL
                  /\ ~HasDeniedKeyword(req[r].dbLog[k].sql)
            /\ (req[r].filtered /\ HasDeniedKeyword(req[r].execSQL)) =>
                  /\ req[r].pc = "done"
                  /\ req[r].status = 403
                  /\ req[r].dbLog = <<>>
                  /\ req[r].result = <<>>

\* A chart answer whose statement is "drop table t" was refused.
C1_Witness ==
    \E r \in Requests :
        /\ req[r].handler = "query" /\ req[r].status = 403
        /\ req[r].isChart
        /\ req[r].execSQL = <<"d","r","o","p"," ","t","a","b","l","e"," ","t">>
        /\ req[r].dbLog = <<>>

\* C2: IsQuerySafe returns false exactly when the text, letter case ignored,
\* holds one of DROP, DELETE, UPDATE, ALTER, TRUNCATE as a substring; it returns
\* true for every other text, the empty one included.
C2_IsQuerySafeExact == fDone => (fSafe = ~HasDeniedKeyword(fQuery))

\* A lower-case keyword inside an identifier is refused.
C2_Witness == fDone /\ ~fSafe /\ fQuery = <<"x","d","r","o","p">>

\* The fragments of text between its ';' characters, in order.
RECURSIVE FragmentsFrom(_, _)
FragmentsFrom(text, start) ==
    LET stops == {k \in start..Len(text) : text[k] = ";"}
    IN IF stops = {} THEN <<SubSeq(text, start, Len(text))>>
       ELSE LET stop == CHOOSE k \in stops : \A m \in stops : k <= m
            IN <<SubSeq(text, start, stop - 1)>> \o FragmentsFrom(text, stop + 1)

\* The batch a generated text stands for: its fragments without the white space
\* around them, the empty ones left out.
ExpectedBatch(text) ==
    LET frags == FragmentsFrom(text, 1)
    IN SelectSeq([k \in 1..Len(frags) |-> TrimSpace(frags[k])], LAMBDA f : f # <<>>)

\* The rows a batch of INSERTs into t adds.
BatchRows(batch) ==
    {<<T_t, 1>> : k \in {j \in 1..Len(batch) : batch[j] = InsT1}}
    \cup {<<T_t, 2>> : k \in {j \in 1..Len(batch) : batch[j] = InsT2}}

C4_CancelStopsBatch ==
    \A r \in Requests :
        req[r].handler = "generateData" =>
            /\ \A k \in 1..Len(req[r].log) : ~req[r].log[k].afterCancel
            /\ ~req[r].commitAfterCancel

\* C5: the statements submitted to the transaction are the fragments of the
\* generated text, trimmed, the empty ones dropped, in order and once each; all
\* of them when the batch commits, up to the failing one when it is rolled back.
C5_BatchOrder ==
    \A r \in Requests :
        (req[r].handler = "generateData" /\ req[r].genOK) =>
            LET batch == ExpectedBatch(req[r].text)
                n == Len(req[r].log)
            IN /\ n <= Len(batch)
               /\ \A k \in 1..n : req[r].log[k].sql = batch[k] /\ batch[k] # <<>>
               /\ req[r].committed => n = Len(batch)
               /\ req[r].rolledBack =>
                     /\ n >= 1 /\ req[r].errSQL = batch[n]
                     /\ req[r].pc = "done"

\* A fenced answer of two statements: three fragments, the last one empty, the
\* second one trimmed; two statements were executed and committed.
C5_Witness ==
    \E r \in Requests :
        /\ req[r].handler = "generateData" /\ req[r].committed
        /\ Len(req[r].statements) = 3
        /\ req[r].statements[2] = <<"\n">> \o InsT2
        /\ Len(req[r].log) = 2
        /\ req[r].log[2].sql = InsT2

\* The text after the first chart marker, up to the next marker or the end.
AfterFirstMarker(text) ==
    LET rest == SubSeq(text, FirstAt(text, ChartMarker) + Len(ChartMarker), Len(text))
    IN SubSeq(rest, 1, FirstAt(rest, ChartMarker) - 1)

\* C6: with a chart marker in the generated text, the Safety Filter and the
\* store get the part before the first marker, the chart kind is the trimmed
\* text after that marker, and the caller gets the generated text as it was;
\* without a marker the executed text is the returned one, and there is no chart.
C6_ChartDirective ==
    \A r \in Requests :
        (req[r].handler = "query" /\ req[r].filtered) =>
            LET text == req[r].text
            IN /\ req[r].filterArg = req[r].execSQL
               /\ \A k \in 1..Len(req[r].dbLog) : req[r].dbLog[k].sql = req[r].execSQL
               /\ Occurs(text, ChartMarker) =>
                     /\ req[r].isChart
                     /\ req[r].execSQL = SubSeq(text, 1, FirstAt(text, ChartMarker) - 1)
                     /\ ~Occurs(req[r].execSQL, ChartMarker)
                     /\ req[r].chartType = TrimSpace(AfterFirstMarker(text))
               /\ ~Occurs(text, ChartMarker) =>
                     /\ ~req[r].isChart
                     /\ req[r].chartType = <<>>
                     /\ req[r].execSQL = text
               /\ req[r].status = 200 =>
                     /\ req[r].respSQL = text
                     /\ req[r].respIsChart = req[r].isChart
                     /\ req[r].respChartType = req[r].chartType
                     /\ Len(req[r].dbLog) = 1

\* "SELECT * FROM t; -- CHART: bar" was answered: the SELECT alone was executed.
C6_Witness ==
    \E r \in Requests :
        /\ req[r].handler = "query" /\ req[r].status = 200
        /\ req[r].respSQL = SelT \o <<";"," ">> \o ChartMarker \o <<" ","b","a","r">>
        /\ req[r].respIsChart /\ req[r].respChartType = <<"b","a","r">>
        /\ req[r].dbLog[1].sql = SelT \o <<";"," ">>

ChartKinds == {<<"b","a","r">>, <<"p","i","e">>, <<"l","i","n","e">>,
               <<"d","o","u","g","h","n","u","t">>}

\* C7: a successful query result with isChart set has one of the four chart kinds.
C7_ChartKindRecognized ==
    \A r \in Requests :
        (req[r].handler = "query" /\ req[r].status = 200 /\ req[r].respIsChart) =>
            req[r].respChartType \in ChartKinds

\* C8: generateData is refused as empty-schema exactly when the store has no
\* table, and then before the generator, a transaction or a statement.
C8_EmptySchema ==
    \A r \in Requests :
        req[r].handler = "generateData" =>
            /\ req[r].body = "No tables found in database" =>
                  /\ \A n \in TableNames : ~catalog[n].exists
                  /\ req[r].status = 400
                  /\ ~req[r].genCalled /\ ~req[r].began /\ req[r].log = <<>>
            /\ req[r].genCalled => \E n \in TableNames : catalog[n].exists

\* C9: an empty text from the generator ends the request with a generator error:
\* generateData commits nothing and reports no success, query submits nothing.
C9_EmptyTextIsGeneratorError ==
    \A r \in Requests :
        (req[r].genOK /\ req[r].text = <<>>) =>
            /\ req[r].handler = "generateData" => ~req[r].committed /\ req[r].status # 200
            /\ req[r].handler = "query" => req[r].dbLog = <<>>

\* C10: a failure at the store makes the request report an error.  (The preview
\* after a committed batch is left out: it is documented as best effort.)
C10_StoreErrorsSurfaced ==
    \A r \in Requests :
        (req[r].pc = "done" /\ req[r].storeFailed
             /\ ~(req[r].handler = "generateData" /\ req[r].committed)) =>
            req[r].status >= 400

\* The table the listing names first: the existing table no other existing table
\* sorts before.
FirstListed(cat) ==
    CHOOSE n \in TableNames :
        /\ cat[n].exists
        /\ \A m \in TableNames :
              cat[m].exists =>
                 \E i, j \in 1..Len(TableOrder) :
                    TableOrder[i] = n /\ TableOrder[j] = m /\ i <= j

\* C11: once the batch has committed the response is a success whatever happens
\* to the preview: the status is 200, nothing is rolled back and the committed
\* rows stay those of the batch; a preview that was read holds at most 10 rows,
\* all of them rows of the table listed first.
C11_PreviewBestEffort ==
    \A r \in Requests :
        (req[r].handler = "generateData" /\ req[r].committed) =>
            /\ req[r].pc \in {"gd_preview", "done"}
            /\ ~req[r].rolledBack
            /\ rows = req[r].snap \cup BatchRows(ExpectedBatch(req[r].text))
            /\ req[r].pc = "done" =>
                  /\ req[r].status = 200
                  /\ ~req[r].sqlAttached
                  /\ req[r].body \in {"Data generated but no tables found to preview",
                                      "Data generated successfully",
                                      "json: Data generated successfully"}
                  /\ req[r].body # "json: Data generated successfully" => req[r].result = <<>>
                  /\ req[r].body = "json: Data generated successfully" =>
                        /\ req[r].tables # <<>>
                        /\ req[r].tables[1] = FirstListed(catalog)
                        /\ Len(req[r].result) <= 10
                        /\ \A k \in 1..Len(req[r].result) :
                              <<FirstListed(catalog), req[r].result[k]>> \in rows
                        /\ \A k \in 1..(Len(req[r].result) - 1) :
                              req[r].result[k] < req[r].result[k + 1]

\* Two rows were committed on top of the rows held before, the preview SELECT
\* failed, and the response is a plain success.
C11_Witness ==
    \E r \in Requests :
        /\ req[r].handler = "generateData" /\ req[r].committed
        /\ req[r].pc = "done" /\ req[r].status = 200
        /\ req[r].body = "Data generated successfully"
        /\ req[r].storeFailed /\ req[r].dbLog # <<>>
        /\ {<<T_t, 1>>, <<T_t, 2>>} \subseteq rows \ req[r].snap
        /\ Cardinality(rows) > 10

\* The directive and sampling parameters a request asks the generator to use.
OwnConfiguration(rec) ==
    IF rec.handler = "query"
    THEN [temperature |-> 1, maxTokens |-> 1024, sys |-> "select"]
    ELSE [temperature |-> rec.temperature, maxTokens |-> rec.maxTokens, sys |-> "insert"]

\* C12: under every interleaving of concurrent generateData and query requests
\* each call to the generator is sent with the directive, the temperature and
\* the token limit of its own request.
C12_OwnConfigurationSent ==
    \A r \in DOMAIN req :
        req[r].genCalled => req[r].sent = OwnConfiguration(req[r])

\* A table block: one header, the columns as declared, one closing line.
TableBlock(n, cols) ==
    <<"T","A","B","L","E"," ">> \o n \o <<" ","(","\n">>
    \o Concat([j \in 1..Len(cols) |->
                  <<" "," ">> \o cols[j].name \o <<" ">> \o cols[j].type \o <<",","\n">>])
    \o <<")","\n">>

\* The blocks of the tables that have columns, in table-name order.
SchemaText(cat) ==
    Concat([k \in 1..Len(TableOrder) |->
               IF cat[TableOrder[k]].exists /\ cat[TableOrder[k]].cols # <<>>
               THEN TableBlock(TableOrder[k], cat[TableOrder[k]].cols)
               ELSE <<>>])

\* C13: two calls of GetSchema that read the same catalog return the same text;
\* the text is the blocks of the tables in table-name order, each with one
\* header, its columns in declaration order and one closing line, and it is
\* empty exactly when the catalog has no columns.
C13_GetSchemaStable ==
    /\ \A i, j \in 1..Len(schemaCalls) :
          (~schemaCalls[i].err /\ ~schemaCalls[j].err
             /\ schemaCalls[i].cat = schemaCalls[j].cat) =>
                schemaCalls[i].text = schemaCalls[j].text
    /\ \A i \in 1..Len(schemaCalls) :
          ~schemaCalls[i].err =>
             /\ schemaCalls[i].text = SchemaText(schemaCalls[i].cat)
             /\ (schemaCalls[i].text = <<>>) <=>
                   (\A n \in TableNames :
                       ~schemaCalls[i].cat[n].exists \/ schemaCalls[i].cat[n].cols = <<>>)

\* Two calls in a row read a catalog of two tables, t declaring name, address,
\* id in that order, and returned the same non-empty text.
C13_Witness ==
    /\ Len(schemaCalls) = 2
    /\ ~schemaCalls[1].err /\ ~schemaCalls[2].err
    /\ schemaCalls[1].cat = schemaCalls[2].cat
    /\ schemaCalls[1].cat[T_t].cols = <<ColsT[2], ColAddress, ColsT[1]>>
    /\ schemaCalls[1].cat[T_u].exists /\ schemaCalls[1].cat[T_u].cols = ColsT
    /\ schemaCalls[2].text # <<>>
    /\ schemaCalls[1].text = schemaCalls[2].text

\* C14: a query request whose text passed the Safety Filter runs at most one
\* statement against the store, whatever the text holds between its ';'.
C14_OneStatementPerQuery ==
    \A r \in Requests :
        (req[r].handler = "query" /\ req[r].pc = "done" /\ req[r].status = 200) =>
            /\ req[r].filterOK
            /\ Len(req[r].dbLog) = 1
            /\ Len(ExpectedBatch(req[r].dbLog[1].sql)) <= 1

====
